---- MODULE Spec2Model ----
(***************************************************************************)
(* Model of jRLE, the run-length encoder of src/jRLE.cpp and src/jRLE.h.   *)
(*                                                                         *)
(* A std::string is a sequence of one-character strings, a                 *)
(* std::vector<std::string> a sequence of such sequences.  Positions are   *)
(* 0-based as in the source; at and substr do the conversion.  A call that *)
(* can throw returns a record whose field thrown names the exception       *)
(* ("none" when the call returns).                                         *)
(***************************************************************************)
EXTENDS Integers, Sequences, FiniteSets, TLC

(***************************************************************************)
(* Bounds of the explored inputs.                                          *)
(***************************************************************************)
\* the most runs an input text is built from
MaxRuns == 2
\* the longest run of an input text of one run
MaxRunLen == 11
\* the most successive encodings applied to one buffer
MaxEncodes == 2
\* the longest run a decoder call builds; building a longer one ends the
\* call with "run_too_long" (the build allocates it or throws bad_alloc)
MaxDecodedRun == 60

(***************************************************************************)
(* Characters.                                                             *)
(***************************************************************************)
Digits == {"0", "1", "2", "3", "4", "5", "6", "7", "8", "9"}

\* the characters input texts are drawn from
Alphabet == {"a", "1", "2", "#", "\n"}

\* int isdigit(int)
isdigit(c) == c \in Digits

\* value of a digit character: c - '0'
DigitVal(c) ==
    CASE c = "0" -> 0 [] c = "1" -> 1 [] c = "2" -> 2 [] c = "3" -> 3
      [] c = "4" -> 4 [] c = "5" -> 5 [] c = "6" -> 6 [] c = "7" -> 7
      [] c = "8" -> 8 [] c = "9" -> 9

\* the digit character of a value 0..9
DigitChar(d) ==
    CASE d = 0 -> "0" [] d = 1 -> "1" [] d = 2 -> "2" [] d = 3 -> "3"
      [] d = 4 -> "4" [] d = 5 -> "5" [] d = 6 -> "6" [] d = 7 -> "7"
      [] d = 8 -> "8" [] d = 9 -> "9"

\* ASCII code of a character, as used by  front() - '0'
Ord(c) ==
    CASE c = "\n" -> 10
      [] c = "#" -> 35
      [] c \in Digits -> 48 + DigitVal(c)
      [] c = "a" -> 97

Min(a, b) == IF a < b THEN a ELSE b

(***************************************************************************)
(* std::string operations.                                                 *)
(***************************************************************************)
\* s.at(i), for i inside the string
at(s, i) == s[i + 1]

\* s.substr(pos, n), for pos <= s.length(): at most n characters from pos
substr(s, pos, n) == SubSeq(s, pos + 1, Min(pos + n, Len(s)))

\* std::string(n, c)
RECURSIVE Rep(_, _)
Rep(c, n) == IF n <= 0 THEN <<>> ELSE <<c>> \o Rep(c, n - 1)

\* std::to_string of a non-negative int
RECURSIVE to_string(_)
to_string(n) ==
    IF n < 10 THEN <<DigitChar(n)>>
    ELSE to_string(n \div 10) \o <<DigitChar(n % 10)>>

\* the largest int
IntMax == 2147483647

\* the digits of s from position p on, read as a decimal number after acc;
\* -1 when the number does not fit an int
RECURSIVE stoiDigits(_, _, _)
stoiDigits(s, p, acc) ==
    IF p > Len(s) \/ ~isdigit(s[p]) THEN acc
    ELSE IF acc > (IntMax - DigitVal(s[p])) \div 10 THEN -1
    ELSE stoiDigits(s, p + 1, 10 * acc + DigitVal(s[p]))

\* first position (1-based) of s at or after p that holds no white space
RECURSIVE skipSpace(_, _)
skipSpace(s, p) ==
    IF p <= Len(s) /\ s[p] = "\n" THEN skipSpace(s, p + 1) ELSE p

\* std::stoi: skips leading white space, reads the decimal digits that
\* follow, throws std::invalid_argument when there is none and
\* std::out_of_range when they do not fit an int.  (No sign character is in
\* the alphabet.)
stoi(s) ==
    LET p == skipSpace(s, 1) IN
    IF p > Len(s) \/ ~isdigit(s[p])
    THEN [thrown |-> "invalid_argument", val |-> 0]
    ELSE LET v == stoiDigits(s, p, 0) IN
         IF v < 0 THEN [thrown |-> "out_of_range", val |-> 0]
         ELSE [thrown |-> "none", val |-> v]

(***************************************************************************)
(* tokenizeUnencoded                                                       *)
(***************************************************************************)
\* mutant: the last character of the text does not close its run
SeqEndsAtNoLast(inText, i) ==
    i < Len(inText) - 1 /\ at(inText, i) # at(inText, i + 1)

\* the condition of the loop body: the run ends at position i
SeqEndsAt(inText, i) ==
    i = Len(inText) - 1 \/ at(inText, i) # at(inText, i + 1)

RECURSIVE tokenizeUnencodedLoop(_, _, _, _)
tokenizeUnencodedLoop(inText, i, currentSeqStart, dTokens) ==
    IF ~(i < Len(inText)) THEN dTokens
    ELSE IF SeqEndsAt(inText, i)
         THEN tokenizeUnencodedLoop(inText, i + 1, i + 1,
                  Append(dTokens,
                         substr(inText, currentSeqStart, i - currentSeqStart + 1)))
         ELSE tokenizeUnencodedLoop(inText, i + 1, currentSeqStart, dTokens)

tokenizeUnencoded(inText) ==
    IF inText = <<>> THEN <<>>
    ELSE tokenizeUnencodedLoop(inText, 0, 0, <<>>)

(***************************************************************************)
(* vectorConcatenate                                                       *)
(***************************************************************************)
RECURSIVE vectorConcatenate(_)
vectorConcatenate(inVect) ==
    IF inVect = <<>> THEN <<>>
    ELSE Head(inVect) \o vectorConcatenate(Tail(inVect))

(***************************************************************************)
(* encodeTokens                                                            *)
(***************************************************************************)
\* a run counts as a long sequence when its length exceeds this
LongSeqOver == 9

\* mutant: #-case c is forgotten, only long sequences get the leading '#'
NeedsLeadingHashNoCaseC(dTokens, i) ==
    Len(dTokens[i + 1]) > LongSeqOver

\* #-case a, or #-case c (or both): the token is preceded by a '#'
NeedsLeadingHash(dTokens, i) ==
    \/ Len(dTokens[i + 1]) > LongSeqOver
    \/ (i > 0 /\ isdigit(Head(dTokens[i])))

\* mutant: a run of '#' characters gets no extra '#'
TrailingMarkNone(currentToken) == <<>>

\* #-case b: a run of '#' characters is marked with an extra '#'
TrailingMark(currentToken) ==
    IF Head(currentToken) = "#" THEN <<"#">> ELSE <<>>

\* the body of the loop: the encoded token of dTokens.at(i)
encodeToken(dTokens, i) ==
    LET currentToken == dTokens[i + 1] IN
    (IF NeedsLeadingHash(dTokens, i) THEN <<"#">> ELSE <<>>)
        \o to_string(Len(currentToken)) \o <<Head(currentToken)>>
        \o TrailingMark(currentToken)

encodeTokens(dTokens) ==
    IF dTokens = <<>> THEN <<>>
    ELSE [k \in 1..Len(dTokens) |-> encodeToken(dTokens, k - 1)]

(***************************************************************************)
(* tokenizeEncoded                                                         *)
(*                                                                         *)
(* The scanner state st holds the locals of the function: the loop index   *)
(* i, longSeqStart, newToken, eTokens; thrown and errPos say which         *)
(* exception left the function and the position it names.  normalAt and    *)
(* lookAt record the positions handled outside a long sequence and the     *)
(* positions inspected by the lookahead inText.at(i+1).                    *)
(***************************************************************************)
\* the value of longSeqStart when the current token is not a long sequence
NoLongSeq == -1

\* inside a long sequence at a '#': the next character is a '#' too
NextIsHash(inText, i) == at(inText, i + 1) = "#"

\* the test that guards the throw: a char that is not accompanied by a
\* char count
LacksCount(inText, i) ==
    at(inText, i) # "\n" /\ i < Len(inText) - 1

\* the branch taken while the current token is a long sequence
LongSeqBody(inText, st) ==
    LET i == st.i
        currentChar == at(inText, i)
        longSeqStart == st.longSeqStart
        push(s, tok) == IF tok # <<"\n">>
                        THEN [s EXCEPT !.eTokens = Append(@, tok), !.newToken = tok]
                        ELSE [s EXCEPT !.newToken = tok]
    IN
    IF isdigit(currentChar) THEN st
    ELSE IF currentChar = "#"
    THEN IF ~(i + 1 < Len(inText))
         THEN \* inText.at(i+1) throws
              [st EXCEPT !.thrown = "out_of_range", !.errPos = i + 1,
                         !.lookAt = @ \cup {i + 1}]
         ELSE IF NextIsHash(inText, i)
         THEN push([st EXCEPT !.longSeqStart = i + 2, !.i = i + 1,
                              !.lookAt = @ \cup {i + 1}],
                   substr(inText, longSeqStart, i - longSeqStart + 2))
         ELSE push([st EXCEPT !.longSeqStart = i + 1,
                              !.lookAt = @ \cup {i + 1}],
                   substr(inText, longSeqStart, i - longSeqStart))
    ELSE push([st EXCEPT !.longSeqStart = NoLongSeq],
              substr(inText, longSeqStart, i - longSeqStart + 1))

\* the branch taken while the current token is not a long sequence
NormalBody(inText, st) ==
    LET i == st.i
        currentChar == at(inText, i)
        seen == [st EXCEPT !.normalAt = @ \cup {i}]
    IN
    IF currentChar = "#" THEN [seen EXCEPT !.longSeqStart = i + 1]
    ELSE IF ~isdigit(at(inText, i))
    THEN IF LacksCount(inText, i)
         THEN [seen EXCEPT !.thrown = "invalid_argument", !.errPos = i]
         ELSE seen
    ELSE IF substr(inText, i, 2) # <<"\n">>
    THEN [seen EXCEPT !.eTokens = Append(@, substr(inText, i, 2)), !.i = i + 1]
    ELSE seen

\* the for loop over all characters of inText
RECURSIVE tokenizeEncodedLoop(_, _)
tokenizeEncodedLoop(inText, st) ==
    IF st.thrown # "none" \/ ~(st.i < Len(inText)) THEN st
    ELSE LET body == IF st.longSeqStart # NoLongSeq
                     THEN LongSeqBody(inText, st)
                     ELSE NormalBody(inText, st)
         IN tokenizeEncodedLoop(inText, [body EXCEPT !.i = @ + 1])

ScanStart ==
    [i |-> 0, longSeqStart |-> NoLongSeq, newToken |-> <<>>, eTokens |-> <<>>,
     thrown |-> "none", errPos |-> -1, normalAt |-> {}, lookAt |-> {}]

tokenizeEncoded(inText) ==
    IF inText = <<>> THEN ScanStart
    ELSE tokenizeEncodedLoop(inText, ScanStart)

(***************************************************************************)
(* decodeTokens                                                            *)
(***************************************************************************)
\* the outcomes of currentToken.back() on an empty token, which is
\* undefined: the build aborts on its assertion, or a byte outside the
\* string is read and is a '#' or is not
BackOfEmpty == {"abort", "#", "a"}

\* s.substr(0, s.length() - k): the count is unsigned, so it wraps to a
\* huge one, which keeps the whole string, when the token is shorter than k
dropLast(s, k) == IF Len(s) < k THEN s ELSE substr(s, 0, Len(s) - k)

\* mutant: the character code of front() is used as the count, '0' is not
\* subtracted
ShortCountNoOffset(currentToken) == Ord(Head(currentToken))

\* the count of a two-character token: front() - '0'
ShortCount(currentToken) == Ord(Head(currentToken)) - Ord("0")

\* std::string(n, c) for a count n that was read from a token
repeat(c, n) ==
    IF n > MaxDecodedRun THEN [thrown |-> "run_too_long", val |-> <<>>]
    ELSE [thrown |-> "none", val |-> Rep(c, n)]

\* the body of the loop: the decoded text of one token; ub is what back()
\* yields on an empty token
decodeToken(currentToken, ub) ==
    IF Len(currentToken) = 2
    THEN LET n == ShortCount(currentToken) IN
         \* a negative count converts to a huge unsigned one
         IF n < 0 THEN [thrown |-> "length_error", val |-> <<>>]
         ELSE repeat(currentToken[2], n)
    ELSE IF currentToken = <<>> /\ ub = "abort"
    THEN [thrown |-> "abort", val |-> <<>>]
    ELSE LET back == IF currentToken = <<>> THEN ub
                     ELSE currentToken[Len(currentToken)]
         IN
         IF back = "#"
         THEN LET n == stoi(dropLast(currentToken, 2)) IN
              IF n.thrown # "none" THEN [thrown |-> n.thrown, val |-> <<>>]
              ELSE repeat("#", n.val)
         ELSE LET n == stoi(dropLast(currentToken, 1)) IN
              IF n.thrown # "none" THEN [thrown |-> n.thrown, val |-> <<>>]
              ELSE repeat(back, n.val)

\* the for loop over all encoded tokens; the first exception leaves it
RECURSIVE decodeTokensLoop(_, _, _, _)
decodeTokensLoop(eTokens, i, dTokens, ub) ==
    IF ~(i < Len(eTokens)) THEN [thrown |-> "none", dTokens |-> dTokens]
    ELSE LET d == decodeToken(eTokens[i + 1], ub) IN
         IF d.thrown # "none" THEN [thrown |-> d.thrown, dTokens |-> dTokens]
         ELSE decodeTokensLoop(eTokens, i + 1, Append(dTokens, d.val), ub)

decodeTokens(eTokens, ub) ==
    IF eTokens = <<>> THEN [thrown |-> "none", dTokens |-> <<>>]
    ELSE decodeTokensLoop(eTokens, 0, <<>>, ub)

(***************************************************************************)
(* readFile, writeFile, main                                               *)
(***************************************************************************)
\* what can be passed as the file path: a .txt file that opens, a path
\* without the .txt extension, a .txt path that cannot be opened
Paths == {"ok", "bad_ext", "cannot_open"}

\* what can be passed as the behaviour flag
Funcs == {"-e", "-d", "-x"}

\* the getline loop of readFile: every line of the file, each followed by
\* a line terminator; a last line without one gets one
readLines(contents) ==
    IF contents = <<>> \/ contents[Len(contents)] = "\n" THEN contents
    ELSE contents \o <<"\n">>

readFile(path, contents) ==
    IF path = "bad_ext" THEN [thrown |-> "invalid_argument", val |-> <<>>]
    ELSE IF path = "cannot_open" THEN [thrown |-> "ios_failure", val |-> <<>>]
    ELSE [thrown |-> "none", val |-> readLines(contents)]

\* the file after writeFile(fname, inText), for a path readFile accepted
writeFile(path, inText) == inText

\* mutant: the file is opened for writing, and so emptied, before the text
\* is processed
FileAfterThrowEmptied(contents) == <<>>

\* the file when an exception leaves main: writeFile was not reached
FileAfterThrow(contents) == contents

\* One run of main on a file holding contents.  The fields are main's
\* locals (those an exception leaves unassigned stay empty), the exception
\* that ends the run, the scanner's final state and the file afterwards.
main(func, path, contents, ub) ==
    LET rd == readFile(path, contents)
        fileText == rd.val
        base == [fileText |-> <<>>, inTokens |-> <<>>, outTokens |-> <<>>,
                 outText |-> <<>>, thrown |-> "none", scan |-> ScanStart,
                 file |-> FileAfterThrow(contents)]
    IN
    IF rd.thrown # "none" THEN [base EXCEPT !.thrown = rd.thrown]
    ELSE IF func = "-d"
    THEN LET sc == tokenizeEncoded(fileText) IN
         IF sc.thrown # "none"
         THEN [base EXCEPT !.fileText = fileText, !.thrown = sc.thrown,
                           !.scan = sc]
         ELSE LET dec == decodeTokens(sc.eTokens, ub) IN
              IF dec.thrown # "none"
              THEN [base EXCEPT !.fileText = fileText, !.scan = sc,
                                !.inTokens = sc.eTokens, !.thrown = dec.thrown]
              ELSE LET outText == vectorConcatenate(dec.dTokens) IN
                   [fileText |-> fileText, inTokens |-> sc.eTokens,
                    outTokens |-> dec.dTokens, outText |-> outText,
                    thrown |-> "none", scan |-> sc,
                    file |-> writeFile(path, outText)]
    ELSE IF func = "-e"
    THEN LET inTokens == tokenizeUnencoded(fileText)
             outTokens == encodeTokens(inTokens)
             outText == vectorConcatenate(outTokens)
         IN [fileText |-> fileText, inTokens |-> inTokens,
             outTokens |-> outTokens, outText |-> outText,
             thrown |-> "none", scan |-> ScanStart,
             file |-> writeFile(path, outText)]
    ELSE [base EXCEPT !.fileText = fileText, !.thrown = "invalid_argument"]

(***************************************************************************)
(* The state machine: a text is drawn, then either the library functions   *)
(* are applied to it in the order the header gives (tokenize, en/decode,   *)
(* concatenate), or the program is run on a file that holds it.            *)
(***************************************************************************)
VARIABLES
    seed,       \* the runs the input text is made of
    orig,       \* the input text
    hist,       \* the operations applied so far
    arg,        \* the text the last operation was applied to
    buf,        \* the text the last operation returned
    inTokens,   \* the tokens the last operation's tokenizer returned
    outTokens,  \* the tokens the last operation's en/decoder returned
    thrown,     \* the exception that ended the last operation, or "none"
    scan,       \* the final state of the last run of tokenizeEncoded
    file        \* the contents of the file main works on

vars == <<seed, orig, hist, arg, buf, inTokens, outTokens, thrown, scan, file>>

\* the run lengths of drawn texts of several runs: the shortest, and those
\* on either side of the long-sequence limit
RunLens == {1, LongSeqOver, LongSeqOver + 1}

Runs == {Rep(c, n) : c \in Alphabet, n \in RunLens}

\* the drawn run sequences: up to MaxRuns runs, and every single run of up
\* to MaxRunLen characters
Seeds ==
    UNION {[1..k -> Runs] : k \in 0..MaxRuns}
        \cup {<<Rep(c, n)>> : c \in Alphabet, n \in 1..MaxRunLen}

Count(h, op) == Cardinality({k \in 1..Len(h) : h[k] = op})

Init ==
    /\ seed \in Seeds
    /\ orig = vectorConcatenate(seed)
    /\ hist = <<>>
    /\ arg = <<>>
    /\ buf = orig
    /\ inTokens = <<>>
    /\ outTokens = <<>>
    /\ thrown = "none"
    /\ scan = ScanStart
    /\ file = orig

\* encodeTokens(seed): the encoder applied to the drawn runs themselves
EncodeRuns ==
    /\ hist = <<>>
    /\ hist' = <<"t">>
    /\ inTokens' = seed
    /\ outTokens' = encodeTokens(seed)
    /\ UNCHANGED <<seed, orig, arg, buf, thrown, scan, file>>

\* buf = vectorConcatenate(encodeTokens(tokenizeUnencoded(buf)))
Encode ==
    /\ thrown = "none"
    /\ \A k \in 1..Len(hist) : hist[k] = "e"
    /\ Len(hist) < MaxEncodes
    /\ hist' = Append(hist, "e")
    /\ arg' = buf
    /\ inTokens' = tokenizeUnencoded(buf)
    /\ outTokens' = encodeTokens(inTokens')
    /\ buf' = vectorConcatenate(outTokens')
    /\ UNCHANGED <<seed, orig, thrown, scan, file>>

\* buf = vectorConcatenate(decodeTokens(tokenizeEncoded(buf))); a text is
\* decoded no more often than it was encoded, or once if it never was
Decode ==
    /\ thrown = "none"
    /\ \A k \in 1..Len(hist) : hist[k] \in {"e", "d"}
    /\ Count(hist, "d") < (IF Count(hist, "e") = 0 THEN 1 ELSE Count(hist, "e"))
    /\ \E ub \in BackOfEmpty :
         LET sc == tokenizeEncoded(buf)
             dec == decodeTokens(sc.eTokens, ub)
         IN
         /\ hist' = Append(hist, "d")
         /\ arg' = buf
         /\ scan' = sc
         /\ IF sc.thrown # "none"
            THEN /\ thrown' = sc.thrown
                 /\ UNCHANGED <<inTokens, outTokens, buf>>
            ELSE /\ inTokens' = sc.eTokens
                 /\ IF dec.thrown # "none"
                    THEN /\ thrown' = dec.thrown
                         /\ UNCHANGED <<outTokens, buf>>
                    ELSE /\ thrown' = "none"
                         /\ outTokens' = dec.dTokens
                         /\ buf' = vectorConcatenate(dec.dTokens)
    /\ UNCHANGED <<seed, orig, file>>

\* one run of the program on the file
Main ==
    /\ hist = <<>>
    /\ \E func \in Funcs, path \in Paths, ub \in BackOfEmpty :
         LET m == main(func, path, file, ub) IN
         /\ hist' = <<func>>
         /\ arg' = m.fileText
         /\ buf' = m.outText
         /\ inTokens' = m.inTokens
         /\ outTokens' = m.outTokens
         /\ thrown' = m.thrown
         /\ scan' = m.scan
         /\ file' = m.file
    /\ UNCHANGED <<seed, orig>>

Next == EncodeRuns \/ Encode \/ Decode \/ Main

Spec == Init /\ [][Next]_vars

(***************************************************************************)
(* Vocabulary of the properties.                                           *)
(***************************************************************************)
\* the last operation applied
LastOp == IF hist = <<>> THEN "" ELSE hist[Len(hist)]

\* the decimal numeral of a number below 100, written out digit by digit
DigitSeq == <<"0", "1", "2", "3", "4", "5", "6", "7", "8", "9">>
Numeral(n) ==
    IF n < 10 THEN <<DigitSeq[n + 1]>>
    ELSE <<DigitSeq[(n \div 10) + 1], DigitSeq[(n % 10) + 1]>>

\* s is one or more copies of one character
IsRun(s) == s # <<>> /\ \A k \in 1..Len(s) : s[k] = s[1]

\* the token the encoding format prescribes for run i (1-based) of runs
FormatToken(runs, i) ==
    LET r == runs[i]
        lead == Len(r) >= 10 \/ (i > 1 /\ runs[i - 1][1] \in Digits)
    IN (IF lead THEN <<"#">> ELSE <<>>) \o Numeral(Len(r)) \o <<r[1]>>
           \o (IF r[1] = "#" THEN <<"#">> ELSE <<>>)

\* tok is one or more digits, one character, and at most one trailing '#'
WellFormedToken(tok) ==
    \E nd \in 1..Len(tok) :
        /\ \A k \in 1..nd : tok[k] \in Digits
        /\ \/ Len(tok) = nd + 1
           \/ Len(tok) = nd + 2 /\ tok[nd + 2] = "#"

\* position p (0-based) of text holds a character without a count: no
\* digit, no '#', and no line terminator that ends the text
BareChar(text, p) ==
    LET c == text[p + 1] IN
    /\ c \notin Digits
    /\ c # "#"
    /\ ~(c = "\n" /\ p = Len(text) - 1)

(***************************************************************************)
(* Properties.                                                             *)
(***************************************************************************)
\* C1: round trip: decoding the encoding of any text returns the text,
\* decode(encode(T)) = T, without an exception.
C1_RoundTrip ==
    hist = <<"e", "d">> => (thrown = "none" /\ buf = orig)

\* C2: malformed input is rejected: whenever the scanner, outside a long
\* sequence, is at a position p whose character is no digit, no '#' and no
\* line terminator ending the buffer, tokenizeEncoded throws
\* std::invalid_argument naming p; so decoding "a" throws for position 0.
C2_MalformedRejected ==
    LastOp \in {"d", "-d"} =>
        \A p \in scan.normalAt :
            BareChar(arg, p) =>
                (scan.thrown = "invalid_argument" /\ scan.errPos = p)

C4_ReEncoding ==
    /\ hist = <<"e", "e", "d">> => thrown = "none"
    /\ hist = <<"e", "e", "d", "d">> => (thrown = "none" /\ buf = orig)

\* C5: decomposition: the runs tokenizeUnencoded returns concatenate to the
\* text, each is one or more copies of one character, no two adjacent runs
\* have the same character, and the empty text gives no run.
C5_Decomposition ==
    LastOp \in {"e", "-e"} /\ thrown = "none" =>
        /\ vectorConcatenate(inTokens) = arg
        /\ \A k \in 1..Len(inTokens) : IsRun(inTokens[k])
        /\ \A k \in 1..(Len(inTokens) - 1) :
               inTokens[k][1] # inTokens[k + 1][1]
        /\ arg = <<>> => inTokens = <<>>

\* C5 witness: a text of two runs, the first of several characters and the
\* last not a line terminator, was decomposed
C5_Witness ==
    /\ hist = <<"e">>
    /\ Len(inTokens) = 2
    /\ Len(inTokens[1]) > 1
    /\ arg[Len(arg)] # "\n"

\* C6: hash-run case b: for n from 1 to 9 the text of n '#' characters
\* encodes to the digit n followed by "##", and that buffer decodes to n
\* '#' characters.
C6_HashRun ==
    \A n \in 1..9 :
        /\ (LastOp \in {"e", "-e"} /\ arg = Rep("#", n) /\ thrown = "none")
               => buf = <<DigitSeq[n + 1], "#", "#">>
        /\ (LastOp \in {"d", "-d"} /\ arg = <<DigitSeq[n + 1], "#", "#">>)
               => (thrown = "none" /\ buf = Rep("#", n))

\* C6 witness: "###" was encoded to "3##", which was decoded
C6_Witness ==
    /\ hist = <<"e", "d">>
    /\ orig = <<"#", "#", "#">>
    /\ arg = <<"3", "#", "#">>
    /\ thrown = "none"

\* C7: digit sequences are postfixed by '#': the text of a single run of a
\* digit encodes to the run length, the digit and a '#' ("111" to "31#").
C7_DigitPostfix ==
    (hist = <<"e">> /\ IsRun(orig) /\ orig[1] \in Digits) =>
        buf = Numeral(Len(orig)) \o <<orig[1], "#">>

\* C8: scanner tokens are well formed: every token tokenizeEncoded emits
\* for encode(T) is one or more digits, one character and at most one
\* trailing '#', never the empty string.
C8_TokensWellFormed ==
    hist = <<"e", "d">> =>
        \A k \in 1..Len(scan.eTokens) : WellFormedToken(scan.eTokens[k])

\* C9: decode aborts without partial output: when the scan of the encoded
\* file throws the malformed-encoding error, main has decoded no token,
\* has built no output text, and the file holds what it held before.
C9_DecodeAborts ==
    (hist = <<"-d">> /\ scan.thrown = "invalid_argument") =>
        /\ thrown = "invalid_argument"
        /\ outTokens = <<>>
        /\ buf = <<>>
        /\ file = orig

\* C9 witness: main -d ran on a non-empty file whose scan threw the
\* malformed-encoding error
C9_Witness ==
    /\ hist = <<"-d">>
    /\ scan.thrown = "invalid_argument"
    /\ orig # <<>>

\* C10: the lookahead stays inside the buffer: every position the scanner
\* inspects after a '#' inside a long sequence is below the buffer length,
\* and a scan ends with its tokens or with std::invalid_argument only.
C10_LookaheadInside ==
    LastOp \in {"d", "-d"} =>
        /\ \A p \in scan.lookAt : p < Len(arg)
        /\ scan.thrown \in {"none", "invalid_argument"}

\* C11: restricted round trip: for a text without '#' whose last character
\* is not a digit, the scan of its encoding yields exactly one token per
\* run of the text, in order (the run's length and character), and
\* decoding the encoding returns the text.
C11_RestrictedRoundTrip ==
    (/\ hist = <<"e", "d">>
     /\ \A k \in 1..Len(orig) : orig[k] # "#"
     /\ orig # <<>> => orig[Len(orig)] \notin Digits) =>
        LET runs == tokenizeUnencoded(orig) IN
        /\ scan.thrown = "none"
        /\ Len(scan.eTokens) = Len(runs)
        /\ \A k \in 1..Len(runs) :
               scan.eTokens[k] = Numeral(Len(runs[k])) \o <<runs[k][1]>>
        /\ thrown = "none"
        /\ buf = orig

\* C11 witness: a text of a long digit run followed by a line terminator,
\* without '#', was encoded and its encoding decoded
C11_Witness ==
    /\ hist = <<"e", "d">>
    /\ Len(orig) > 10
    /\ orig[1] \in Digits
    /\ \A k \in 1..10 : orig[k] = orig[1]
    /\ orig[Len(orig)] = "\n"
    /\ \A k \in 1..Len(orig) : orig[k] # "#"
    /\ Len(scan.eTokens) = 2

====
